---- MODULE Spec2Model ----
(***************************************************************************)
(* A model of dircache (src/dircache.cpp, the reference-counted version    *)
(* that starts at line 179): the directory db keyed by path, the dirent_t  *)
(* snapshots with their atomic reference count, the dircontext_t cursors,  *)
(* and the threads that call the dircache_* entry points.                  *)
(*                                                                         *)
(* Pointers are natural numbers: a dirent_t* is an index into ents, a      *)
(* dircontext_t* is an index into ctxs, and NULL is nullptr.  A directory  *)
(* record (struct dirent) is its d_name, a number in Names; strcmp on two  *)
(* names is the difference of the numbers.                                 *)
(***************************************************************************)
EXTENDS Integers, Sequences, FiniteSets, TLC

\* ---------------------------------------------------------------- bounds
NThreads == 2
MaxName == 2
MaxEnts == 2
MaxCtx == 2

Threads == 1..NThreads
Names == 1..MaxName
Paths == {"tree", "nope"}
EntIds == 1..MaxEnts
CtxIds == 1..MaxCtx

\* nullptr: the missing dirent_t*, the failed open, the exhausted readdir.
NULL == 0
\* Owner of a dircontext_t nobody holds a pointer to any more.
Lost == -1
\* Number of reads a cursor's observation log keeps (all records, End, End).
MaxLog == MaxName + 2

VARIABLES
    dir,          \* storage: path -> [exists, names], what opendir/scandir see
    db,           \* dir_db(): path -> dirent_t* (NULL: no such key)
    lock,         \* dir_db_lock(): NULL, or the thread holding it for writing
    ents,         \* heap of dirent_t: id -> [entries, nref, linked, old]
    nEnts,        \* number of dirent_t allocated so far (ids 1..nEnts)
    destroyed,    \* the dirent_t that were deleted
    ctxs,         \* heap of dircontext_t: id -> [owner, ent, pos, ...]
    saved,        \* per dircontext_t: the caller's last telldir result, or -1
    th,           \* per thread: where it is inside a dircache_* call
    ret,          \* per thread: what its last opendir/scandir call returned
    firstRecs,    \* per path: records of the first open since the last invalidation
    invalidated   \* whether a dircache_invalidate has completed

vars == <<dir, db, lock, ents, nEnts, destroyed, ctxs, saved, th, ret,
          firstRecs, invalidated>>

\* ------------------------------------------------------------- sequences
Range(s) == {s[i] : i \in 1..Len(s)}

\* Every order in which a directory scan can deliver the names of S.
Enumerations(S) ==
    {s \in [1..Cardinality(S) -> S] : Range(s) = S}

\* The comparators callers pass: "alpha" is strcmp on d_name, "rev" its
\* negation, "nil" is a null function pointer.
Compare(cmp, a, b) ==
    IF cmp = "alpha" THEN a - b ELSE b - a

RECURSIVE InsertSorted(_, _, _, _)
InsertSorted(x, s, key, cmp) ==
    IF s = <<>> THEN <<x>>
    ELSE IF Compare(cmp, key[x], key[Head(s)]) <= 0 THEN <<x>> \o s
    ELSE <<Head(s)>> \o InsertSorted(x, Tail(s), key, cmp)

\* qsort(3) of a sequence of pointers s by cmp; key[x] is the d_name that the
\* pointer x refers to.
RECURSIVE QSort(_, _, _)
QSort(s, key, cmp) ==
    IF s = <<>> THEN <<>>
    ELSE InsertSorted(Head(s), QSort(Tail(s), key, cmp), key, cmp)

\* --------------------------------------------------------------- storage
Missing == [exists |-> FALSE, names |-> {}]
DirStates == {Missing} \cup {[exists |-> TRUE, names |-> S] : S \in SUBSET Names}

\* opendir(3) succeeds.
OpenDirOk(d) == d.exists

\* scandir(3) with the always-true filter and the strcmp comparator: -1 on a
\* missing directory, else every name, sorted ascending, whatever order raw
\* the directory delivered them in.
ScanDirNeverFails(d) == FALSE
ScanDirFails(d) == ~d.exists
ScanDirUnsorted(raw) == raw
ScanDirResult(raw) == QSort(raw, [n \in Names |-> n], "alpha")

\* ------------------------------------------------------------------ heap
NoEnt == [entries |-> <<>>, nref |-> 0, linked |-> FALSE, old |-> FALSE]
\* A dircontext_t is its owner, ent and pos; the rest is ghost: snap, the
\* records of ent when the cursor was opened; from/out/tok, the log of what
\* the reads returned since the cursor was opened, rewound or sought to tok
\* (told: tok is the token the caller's last telldir returned);
\* cut, how much of that log was read before the last invalidation; first,
\* the records of the first read-through from open to End.
NoCtx == [owner |-> NULL, ent |-> NULL, pos |-> 0, snap |-> <<>>,
          from |-> "none", out |-> <<>>, tok |-> 0, told |-> FALSE, cut |-> 0,
          first |-> <<>>, hasFirst |-> FALSE]

DoneTh == [pc |-> "done", op |-> "none", path |-> "tree", dent |-> NULL,
           scanned |-> FALSE, hadFirst |-> FALSE, inv |-> FALSE, after |-> FALSE]
IdleTh == [pc |-> "idle", op |-> "none", path |-> "tree", dent |-> NULL,
           scanned |-> FALSE, hadFirst |-> FALSE, inv |-> FALSE, after |-> FALSE]
NoRet == [op |-> "none", path |-> "tree", val |-> 0, ent |-> NULL, list |-> <<>>,
          filt |-> [given |-> FALSE, acc |-> {}], cmp |-> "nil",
          scanned |-> FALSE, hadFirst |-> FALSE, inv |-> FALSE, after |-> FALSE,
          old |-> FALSE, recs |-> <<>>, first |-> <<>>]

FreeCtxs == {i \in CtxIds : ctxs[i].owner = NULL}
InFlight == {t \in Threads : th[t].op \in {"open", "list"}}
Invalidating == {t \in Threads : th[t].op = "inval"}

Init ==
    /\ dir \in {d \in [Paths -> DirStates] : d["nope"] = Missing}
    /\ db = [p \in Paths |-> NULL]
    /\ lock = NULL
    /\ ents = [e \in EntIds |-> NoEnt]
    /\ nEnts = 0
    /\ destroyed = {}
    /\ ctxs = [i \in CtxIds |-> NoCtx]
    /\ saved = [i \in CtxIds |-> -1]
    /\ th = [t \in Threads |-> IdleTh]
    /\ ret = [t \in Threads |-> NoRet]
    /\ firstRecs = [p \in Paths |-> [set |-> FALSE, recs |-> <<>>]]
    /\ invalidated = FALSE


\* ------------------------------------------------------------ call entry
Owned(t) == {i \in CtxIds : ctxs[i].owner = t}
\* Heap bound: a call starts only when the dircontext_t it will allocate
\* still fits.
HeapRoom == Cardinality(FreeCtxs) > Cardinality(InFlight)

StartCall(t, op, p) ==
    /\ th' = [th EXCEPT ![t] =
                [pc |-> "find", op |-> op, path |-> p, dent |-> NULL,
                 scanned |-> FALSE, hadFirst |-> firstRecs[p].set,
                 inv |-> Invalidating # {}, after |-> invalidated]]
    /\ UNCHANGED ret

\* dircache_opendir(path) is entered, with a path of P; lim bounds the
\* cursors one thread holds.
CallOpen(t, lim, P) ==
    /\ th[t].pc = "idle"
    /\ HeapRoom
    /\ Cardinality(Owned(t)) < lim
    /\ \E p \in P : StartCall(t, "open", p)
    /\ UNCHANGED <<dir, db, lock, ents, nEnts, destroyed, ctxs, saved,
                   firstRecs, invalidated>>

\* dircache_scandir(dirp, ...) is entered, with a path of P.
CallList(t, P) ==
    /\ th[t].pc = "idle"
    /\ HeapRoom
    /\ \E p \in P : StartCall(t, "list", p)
    /\ UNCHANGED <<dir, db, lock, ents, nEnts, destroyed, ctxs, saved,
                   firstRecs, invalidated>>

\* ------------------------------------------------- dc_find_or_populate
\* What db.find(path) can return.  The lookup takes no lock, so it can run
\* while another thread holds the write lock with its insert or clear under
\* way: a data race on the unordered_map, whose lookup then finds the key or
\* misses it.
FindOutcomes(t, p) ==
    IF \E u \in Threads \ {t} : th[u].pc \in {"insert", "clear"}
    THEN {db[p], NULL}
    ELSE {db[p]}

\* The failure value of the call: nullptr from opendir, -1 from scandir.
FailValue(op) == IF op = "open" THEN NULL ELSE -1

\* The ghost part of a return value: what the call observed.
Observed(t, e) ==
    [NoRet EXCEPT !.op = th[t].op, !.path = th[t].path, !.ent = e,
                  !.scanned = th[t].scanned, !.hadFirst = th[t].hadFirst,
                  !.inv = th[t].inv, !.after = th[t].after,
                  !.old = IF e = NULL THEN FALSE ELSE ents[e].old,
                  !.recs = IF e = NULL THEN <<>> ELSE ents[e].entries,
                  !.first = firstRecs[th[t].path].recs]

ReturnFailure(t) ==
    /\ th' = [th EXCEPT ![t] = DoneTh]
    /\ ret' = [ret EXCEPT ![t] =
                 [Observed(t, NULL) EXCEPT !.val = FailValue(th[t].op)]]

\* The lookup of line 325 made after taking the lock and keeping it.
FindHoldingLock(t) ==
    /\ th[t].pc = "find"
    /\ lock = NULL
    /\ lock' = t
    /\ \E e \in FindOutcomes(t, th[t].path) :
          th' = [th EXCEPT ![t].pc = IF e = NULL THEN "opendir" ELSE "build",
                           ![t].dent = e]
    /\ UNCHANGED <<dir, db, ents, nEnts, destroyed, ctxs, saved, ret,
                   firstRecs, invalidated>>

\* Line 325: the lookup; a hit goes straight to dc_build_around_ent.
Find(t) ==
    /\ th[t].pc = "find"
    /\ \E e \in FindOutcomes(t, th[t].path) :
          th' = [th EXCEPT ![t].pc = IF e = NULL THEN "opendir" ELSE "build",
                           ![t].dent = e]
    /\ UNCHANGED <<dir, db, lock, ents, nEnts, destroyed, ctxs, saved, ret,
                   firstRecs, invalidated>>

\* Lines 331-333: opendir(path); a missing directory returns nullptr.
OpenDir(t) ==
    /\ th[t].pc = "opendir"
    /\ IF OpenDirOk(dir[th[t].path])
       THEN /\ th' = [th EXCEPT ![t].pc = "scandir"]
            /\ UNCHANGED ret
       ELSE ReturnFailure(t)
    /\ UNCHANGED <<dir, db, lock, ents, nEnts, destroyed, ctxs, saved,
                   firstRecs, invalidated>>

\* Lines 334-351: scandir(path, ...); on -1 return nullptr, else build the
\* new dirent_t with nref 0 and the scanned records.  MaxEnts bounds the
\* scans that succeed: past it, a scan does not return.
ScanDir(t) ==
    /\ th[t].pc = "scandir"
    /\ IF ScanDirFails(dir[th[t].path])
       THEN /\ ReturnFailure(t)
            /\ UNCHANGED <<ents, nEnts>>
       ELSE /\ nEnts < MaxEnts
            /\ \E raw \in Enumerations(dir[th[t].path].names) :
                 ents' = [ents EXCEPT ![nEnts + 1] =
                            [entries |-> ScanDirResult(raw), nref |-> 0,
                             linked |-> FALSE, old |-> FALSE]]
            /\ nEnts' = nEnts + 1
            /\ th' = [th EXCEPT ![t].pc = "wlock", ![t].dent = nEnts + 1,
                                ![t].scanned = TRUE]
            /\ UNCHANGED ret
    /\ UNCHANGED <<dir, db, lock, destroyed, ctxs, saved, firstRecs, invalidated>>

\* Line 354: dir_db_lock().write_lock().
WLock(t) ==
    /\ th[t].pc = "wlock"
    /\ lock = NULL
    /\ lock' = t
    /\ th' = [th EXCEPT ![t].pc = "insert"]
    /\ UNCHANGED <<dir, db, ents, nEnts, destroyed, ctxs, saved, ret,
                   firstRecs, invalidated>>

\* unordered_map::insert: a key already present keeps its value.
DbInsert(m, p, e) == IF m[p] = NULL THEN [m EXCEPT ![p] = e] ELSE m

\* The insert of line 355 returning with the lock still held.
InsertKeepsLock(t) ==
    /\ th[t].pc = "insert"
    /\ db' = DbInsert(db, th[t].path, th[t].dent)
    /\ ents' = [ents EXCEPT ![th[t].dent].linked =
                   (db'[th[t].path] = th[t].dent)]
    /\ th' = [th EXCEPT ![t].pc = "build"]
    /\ UNCHANGED <<dir, lock, nEnts, destroyed, ctxs, saved, ret, firstRecs,
                   invalidated>>

\* Lines 355-356: insert({path, dent}) and unlock.
Insert(t) ==
    /\ th[t].pc = "insert"
    /\ db' = DbInsert(db, th[t].path, th[t].dent)
    /\ ents' = [ents EXCEPT ![th[t].dent].linked =
                   (db'[th[t].path] = th[t].dent)]
    /\ lock' = NULL
    /\ th' = [th EXCEPT ![t].pc = "build"]
    /\ UNCHANGED <<dir, nEnts, destroyed, ctxs, saved, ret, firstRecs, invalidated>>


\* ------------------------------------------------- dc_build_around_ent
Min(S) == CHOOSE x \in S : \A y \in S : x <= y

\* Lines 298-302: the new dircontext_t, at position 0 over dent.
NewCtx(owner, e) ==
    [NoCtx EXCEPT !.owner = owner, !.ent = e, !.pos = 0, !.from = "open",
                  !.snap = ents[e].entries]

\* nref.fetch_add(d) / nref.fetch_sub(-d).
FetchAddClobbers(es, e, d) == [es EXCEPT ![e].nref = @ + d, ![e].entries = <<>>]
FetchAddTwice(es, e, d) == [es EXCEPT ![e].nref = @ + 2 * d]
FetchAdd(es, e, d) == [es EXCEPT ![e].nref = @ + d]

\* Ghost: the records of the first open of its path to succeed since the last
\* invalidation; a call that overlapped an invalidation is not counted.
NoteFirst(t, e) ==
    IF firstRecs[th[t].path].set \/ th[t].inv THEN firstRecs
    ELSE [firstRecs EXCEPT ![th[t].path] =
             [set |-> TRUE, recs |-> ents[e].entries]]

\* Lines 326/359 and 392: dc_build_around_ent, returned by dircache_opendir.
BuildOpen(t) ==
    /\ th[t].pc = "build"
    /\ th[t].op = "open"
    /\ LET i == Min(FreeCtxs)
           e == th[t].dent
       IN /\ ctxs' = [ctxs EXCEPT ![i] = NewCtx(t, e)]
          /\ saved' = [saved EXCEPT ![i] = -1]
          /\ ents' = FetchAdd(ents, e, 1)
          /\ ret' = [ret EXCEPT ![t] = [Observed(t, e) EXCEPT !.val = i]]
          /\ firstRecs' = NoteFirst(t, e)
    /\ th' = [th EXCEPT ![t] = DoneTh]
    /\ UNCHANGED <<dir, db, lock, nEnts, destroyed, invalidated>>

\* ------------------------------------------------------ dircache_scandir
NoFilter == [given |-> FALSE, acc |-> {}]
Filters == {NoFilter} \cup {[given |-> TRUE, acc |-> S] : S \in SUBSET Names}
Cmps == {"nil", "alpha", "rev"}

\* The caller's filter: nonzero for the names it accepts.
FilterFn(filt, name) == IF name \in filt.acc THEN 1 ELSE 0

\* Line 432: the test that makes the loop skip a record.
Skips(filt, name) == filt.given /\ FilterFn(filt, name) # 0

\* Lines 431-435: the pointers &e kept, in the order of entries (a pointer is
\* the record's index in entries).
Kept(entries, filt) ==
    SelectSeq([i \in 1..Len(entries) |-> i],
              LAMBDA i : ~Skips(filt, entries[i]))

\* Lines 438-439: qsort when there is something to sort and a comparator.
ListView(entries, filt, cmp) ==
    LET kept == Kept(entries, filt)
    IN IF Len(kept) # 0 /\ cmp # "nil" THEN QSort(kept, entries, cmp) ELSE kept

\* Lines 424-441 after dc_find_or_populate found or inserted the dirent_t:
\* the dircontext_t is built and never closed, the view is returned.
BuildList(t) ==
    /\ th[t].pc = "build"
    /\ th[t].op = "list"
    /\ LET i == Min(FreeCtxs)
           e == th[t].dent
       IN /\ ctxs' = [ctxs EXCEPT ![i] = NewCtx(Lost, e)]
          /\ saved' = [saved EXCEPT ![i] = -1]
          /\ ents' = FetchAdd(ents, e, 1)
          /\ \E filt \in Filters, cmp \in Cmps :
                LET view == ListView(ents[e].entries, filt, cmp)
                IN ret' = [ret EXCEPT ![t] =
                             [Observed(t, e) EXCEPT !.val = Len(view),
                                !.list = view, !.filt = filt, !.cmp = cmp]]
          /\ firstRecs' = NoteFirst(t, e)
    /\ th' = [th EXCEPT ![t] = DoneTh]
    /\ UNCHANGED <<dir, db, lock, nEnts, destroyed, invalidated>>

\* The caller has taken the value dircache_opendir or dircache_scandir
\* returned.
Return(t) ==
    /\ th[t].pc = "done"
    /\ th' = [th EXCEPT ![t] = IdleTh]
    /\ ret' = [ret EXCEPT ![t] = NoRet]
    /\ UNCHANGED <<dir, db, lock, ents, nEnts, destroyed, ctxs, saved,
                   firstRecs, invalidated>>

\* --------------------------------------------------------------- cursors
Mine(t, i) == th[t].pc = "idle" /\ ctxs[i].owner = t

\* Lines 362-370 and 413-415: dc_close drops one reference and deletes the
\* dircontext_t; no dirent_t is deleted.
Close(t, i) ==
    /\ Mine(t, i)
    /\ ents' = FetchAdd(ents, ctxs[i].ent, -1)
    /\ ctxs' = [ctxs EXCEPT ![i] = NoCtx]
    /\ saved' = [saved EXCEPT ![i] = -1]
    /\ UNCHANGED <<dir, db, lock, nEnts, destroyed, th, ret, firstRecs, invalidated>>

\* Line 385: the end test of dircache_readdir.
ReadAtEndOffByOne(pos, size) == pos > size
ReadAtEnd(pos, size) == pos >= size

\* Line 387: what &entries[pos] points at.  Memory of a deleted dirent_t, or
\* past the end of the vector, holds anything.
Deref(e, pos) ==
    IF e \notin destroyed /\ pos + 1 \in 1..Len(ents[e].entries)
    THEN {ents[e].entries[pos + 1]}
    ELSE Names

\* Ghost: the observation log of a cursor after a read returned r.
Logged(c, r) ==
    LET cap == IF c.from = "seek" THEN 1 ELSE MaxLog
    IN IF c.from \in {"mixed", "none"} THEN c
       ELSE IF Len(c.out) >= cap
            THEN [c EXCEPT !.from = "mixed", !.out = <<>>, !.tok = 0,
                           !.told = FALSE, !.cut = 0]
       ELSE [c EXCEPT !.out = Append(@, r),
                      !.first = IF c.from = "open" /\ r = NULL /\ ~c.hasFirst
                                THEN c.out ELSE @,
                      !.hasFirst = @ \/ (c.from = "open" /\ r = NULL)]

\* Lines 384-388: dircache_readdir.
Read(t, i) ==
    /\ Mine(t, i)
    /\ LET c == ctxs[i]
       IN IF ReadAtEnd(c.pos, Len(ents[c.ent].entries))
          THEN ctxs' = [ctxs EXCEPT ![i] = Logged(c, NULL)]
          ELSE \E r \in Deref(c.ent, c.pos) :
                  ctxs' = [ctxs EXCEPT ![i] = [Logged(c, r) EXCEPT !.pos = c.pos + 1]]
    /\ UNCHANGED <<dir, db, lock, ents, nEnts, destroyed, saved, th, ret,
                   firstRecs, invalidated>>

\* Line 397.
RewindPosKeeps(pos) == pos
RewindPos(pos) == 0

\* A rewind that moves every dircontext_t over the same dirent_t, as when the
\* position is kept once per directory.
RewindShared(t, i) ==
    /\ Mine(t, i)
    /\ ctxs' = [j \in CtxIds |->
                  IF j = i
                  THEN [ctxs[j] EXCEPT !.pos = RewindPos(@), !.from = "rewind",
                                       !.out = <<>>, !.tok = 0, !.told = FALSE,
                                       !.cut = 0]
                  ELSE IF ctxs[j].owner # NULL /\ ctxs[j].ent = ctxs[i].ent
                  THEN [ctxs[j] EXCEPT !.pos = RewindPos(@)]
                  ELSE ctxs[j]]
    /\ UNCHANGED <<dir, db, lock, ents, nEnts, destroyed, saved, th, ret,
                   firstRecs, invalidated>>

\* Lines 396-398: dircache_rewinddir.
Rewind(t, i) ==
    /\ Mine(t, i)
    /\ ctxs' = [ctxs EXCEPT ![i].pos = RewindPos(@),
                            ![i].from = IF ctxs[i].from \in {"rewind", "rewind2"}
                                           /\ ctxs[i].out = <<>>
                                        THEN "rewind2" ELSE "rewind",
                            ![i].out = <<>>, ![i].tok = 0, ![i].told = FALSE,
                            ![i].cut = 0]
    /\ UNCHANGED <<dir, db, lock, ents, nEnts, destroyed, saved, th, ret,
                   firstRecs, invalidated>>

\* Line 402.
TellResult(c) == c.pos

\* Lines 401-403: dircache_telldir; the caller keeps the token.
Tell(t, i) ==
    /\ Mine(t, i)
    /\ saved' = [saved EXCEPT ![i] = TellResult(ctxs[i])]
    /\ UNCHANGED <<dir, db, lock, ents, nEnts, destroyed, ctxs, th, ret,
                   firstRecs, invalidated>>

\* The tokens callers pass to seekdir.
SeekLocs == (-1)..(MaxName + 1)

\* Lines 407-409.  loc is a long and entries.size() a size_t, so the
\* comparison converts loc to unsigned: a negative loc becomes a value above
\* any size and is rejected with the tokens at or past the end.
SeekPosUnchecked(pos, loc, size) == loc
SeekPos(pos, loc, size) == IF loc < 0 \/ loc >= size THEN pos ELSE loc

\* Lines 406-410: dircache_seekdir.
Seek(t, i) ==
    /\ Mine(t, i)
    /\ \E loc \in SeekLocs :
          ctxs' = [ctxs EXCEPT
                     ![i].pos = SeekPos(@, loc, Len(ents[ctxs[i].ent].entries)),
                     ![i].from = "seek", ![i].out = <<>>, ![i].tok = loc,
                     ![i].told = (saved[i] >= 0 /\ loc = saved[i]),
                     ![i].cut = 0]
    /\ UNCHANGED <<dir, db, lock, ents, nEnts, destroyed, saved, th, ret,
                   firstRecs, invalidated>>

\* --------------------------------------------------- dircache_invalidate
NoFirst == [p \in Paths |-> [set |-> FALSE, recs |-> <<>>]]

\* Ghost: every call in flight has seen an invalidation.
SawInvalidation(t, next) ==
    [u \in Threads |->
        IF u = t THEN next
        ELSE IF th[u].op \in {"open", "list"} THEN [th[u] EXCEPT !.inv = TRUE]
        ELSE th[u]]

CallInvalidate(t) ==
    /\ th[t].pc = "idle"
    /\ th' = SawInvalidation(t, [IdleTh EXCEPT !.pc = "ilock", !.op = "inval"])
    /\ firstRecs' = NoFirst
    /\ UNCHANGED <<dir, db, lock, ents, nEnts, destroyed, ctxs, saved, ret,
                   invalidated>>

\* Line 378.
ILock(t) ==
    /\ th[t].pc = "ilock"
    /\ lock = NULL
    /\ lock' = t
    /\ th' = [th EXCEPT ![t].pc = "clear"]
    /\ UNCHANGED <<dir, db, ents, nEnts, destroyed, ctxs, saved, ret,
                   firstRecs, invalidated>>

\* unordered_map::clear.
DbClear(m) == [p \in Paths |-> NULL]

\* The dirent_t that clear() deletes: the map holds raw dirent_t*, so none.
ClearDestroysMapped(m) == {m[p] : p \in Paths} \ {NULL}
ClearDestroys(m) == {}

\* Lines 379-380: clear and unlock.
Clear(t) ==
    /\ th[t].pc = "clear"
    /\ db' = DbClear(db)
    /\ destroyed' = destroyed \cup ClearDestroys(db)
    /\ lock' = NULL
    /\ th' = SawInvalidation(t, IdleTh)
    /\ ents' = [e \in EntIds |-> IF e <= nEnts THEN [ents[e] EXCEPT !.old = TRUE]
                                 ELSE ents[e]]
    /\ ctxs' = [i \in CtxIds |-> [ctxs[i] EXCEPT !.cut = Len(ctxs[i].out)]]
    /\ firstRecs' = NoFirst
    /\ invalidated' = TRUE
    /\ UNCHANGED <<dir, nEnts, saved, ret>>

\* ----------------------------------------------------------- environment
\* What one change on storage makes of directory d: the directory is removed
\* or created empty, or one entry is created or removed in it.
DirSteps(d) ==
    IF ~d.exists THEN {[exists |-> TRUE, names |-> {}]}
    ELSE {Missing}
         \cup {[d EXCEPT !.names = @ \cup {n}] : n \in Names \ d.names}
         \cup {[d EXCEPT !.names = @ \ {n}] : n \in d.names}

\* The directory "tree" changes on storage behind the cache's back; "nope"
\* never exists.
DirChange ==
    /\ \E d \in DirSteps(dir["tree"]) : dir' = [dir EXCEPT !["tree"] = d]
    /\ UNCHANGED <<db, lock, ents, nEnts, destroyed, ctxs, saved, th, ret,
                   firstRecs, invalidated>>

\* -------------------------------------------------------- specifications
\* Threads calling opendir, closedir and invalidate concurrently while the
\* directory changes on storage.
Next ==
    \/ \E t \in Threads : CallOpen(t, MaxCtx, {"tree"})
    \/ \E t \in Threads : Find(t)
    \/ \E t \in Threads : OpenDir(t)
    \/ \E t \in Threads : ScanDir(t)
    \/ \E t \in Threads : WLock(t)
    \/ \E t \in Threads : Insert(t)
    \/ \E t \in Threads : BuildOpen(t)
    \/ \E t \in Threads : Return(t)
    \/ \E t \in Threads, i \in CtxIds : Close(t, i)
    \/ \E t \in Threads : CallInvalidate(t)
    \/ \E t \in Threads : ILock(t)
    \/ \E t \in Threads : Clear(t)
    \/ DirChange

Spec == Init /\ [][Next]_vars

\* Thread 1 using every cursor operation on one dircontext_t while thread 2
\* invalidates; the directory is as it was at the start.
NextCursor ==
    \/ CallOpen(1, 1, {"tree"})
    \/ Find(1)
    \/ OpenDir(1)
    \/ ScanDir(1)
    \/ WLock(1)
    \/ Insert(1)
    \/ BuildOpen(1)
    \/ Return(1)
    \/ \E i \in CtxIds : Close(1, i)
    \/ \E i \in CtxIds : Read(1, i)
    \/ \E i \in CtxIds : Rewind(1, i)
    \/ \E i \in CtxIds : Tell(1, i)
    \/ \E i \in CtxIds : Seek(1, i)
    \/ CallInvalidate(2)
    \/ ILock(2)
    \/ Clear(2)

SpecCursor == Init /\ [][NextCursor]_vars

\* Thread 1 listing, opening and closing, on a directory that changes on
\* storage and on a path that does not exist.
NextList ==
    \/ CallOpen(1, 1, Paths)
    \/ CallList(1, Paths)
    \/ Find(1)
    \/ OpenDir(1)
    \/ ScanDir(1)
    \/ WLock(1)
    \/ Insert(1)
    \/ BuildOpen(1)
    \/ BuildList(1)
    \/ Return(1)
    \/ \E i \in CtxIds : Close(1, i)
    \/ DirChange

SpecList == Init /\ [][NextList]_vars

\* Heap bound for runs in which every call must be able to finish: a call
\* starts only when the dirent_t it may allocate still fits.
ScanRoom == nEnts + Cardinality(InFlight) < MaxEnts

\* The steps thread t takes on its own inside a call, and the caller's taking
\* of the result.
Step(t) ==
    \/ Find(t)
    \/ OpenDir(t)
    \/ ScanDir(t)
    \/ Insert(t)
    \/ BuildOpen(t)
    \/ BuildList(t)
    \/ Clear(t)
    \/ Return(t)

\* pthread_rwlock_wrlock returns to thread t.
Acquire(t) == WLock(t) \/ ILock(t)

\* Every thread opening and closing, thread 1 listing and thread 2
\* invalidating, concurrently; every thread inside a call is scheduled again
\* and again, and a thread waiting for the lock gets it if the lock is free
\* again and again.
NextFair ==
    \/ \E t \in Threads : ScanRoom /\ CallOpen(t, 1, {"tree"})
    \/ ScanRoom /\ CallList(1, {"tree"})
    \/ \E t \in Threads : Step(t)
    \/ \E t \in Threads : Acquire(t)
    \/ \E t \in Threads, i \in CtxIds : Close(t, i)
    \/ CallInvalidate(2)

SpecFair ==
    /\ Init
    /\ [][NextFair]_vars
    /\ \A t \in Threads : WF_vars(Step(t)) /\ SF_vars(Acquire(t))

\* Thread 1 holding up to two dircontext_t at once and using every cursor
\* operation on each.
NextTwo ==
    \/ CallOpen(1, 2, {"tree"})
    \/ Find(1)
    \/ OpenDir(1)
    \/ ScanDir(1)
    \/ WLock(1)
    \/ Insert(1)
    \/ BuildOpen(1)
    \/ Return(1)
    \/ \E i \in CtxIds : Close(1, i)
    \/ \E i \in CtxIds : Read(1, i)
    \/ \E i \in CtxIds : Rewind(1, i)
    \/ \E i \in CtxIds : Tell(1, i)
    \/ \E i \in CtxIds : Seek(1, i)

SpecTwo == Init /\ [][NextTwo]_vars

\* Thread 1 using every entry point, the cursor operations on one
\* dircontext_t, while thread 2 invalidates.
NextAll ==
    \/ NextCursor
    \/ CallList(1, {"tree"})
    \/ BuildList(1)

SpecAll == Init /\ [][NextAll]_vars

\* Threads opening, listing, closing and invalidating concurrently on a
\* directory that stays as it was at the start.
NextShared ==
    \/ \E t \in Threads : CallOpen(t, 1, {"tree"})
    \/ \E t \in Threads : CallList(t, {"tree"})
    \/ \E t \in Threads : Find(t)
    \/ \E t \in Threads : OpenDir(t)
    \/ \E t \in Threads : ScanDir(t)
    \/ \E t \in Threads : WLock(t)
    \/ \E t \in Threads : Insert(t)
    \/ \E t \in Threads : BuildOpen(t)
    \/ \E t \in Threads : BuildList(t)
    \/ \E t \in Threads : Return(t)
    \/ \E t \in Threads, i \in CtxIds : Close(t, i)
    \/ \E t \in Threads : CallInvalidate(t)
    \/ \E t \in Threads : ILock(t)
    \/ \E t \in Threads : Clear(t)

SpecShared == Init /\ [][NextShared]_vars


\* ---------------------------------------------------------------- claims
Live == {i \in CtxIds : ctxs[i].owner # NULL}
Size(i) == Len(ents[ctxs[i].ent].entries)

\* What k reads from position 0 over recs return: the records in order, then
\* NULL.
ExpectedReads(recs, k) ==
    [j \in 1..k |-> IF j <= Len(recs) THEN recs[j] ELSE NULL]

\* What one read at position p over recs returns.
ReadAt(recs, p) == IF p < Len(recs) THEN recs[p + 1] ELSE NULL

\* C1: whatever invalidations happen while a cursor is open, the dirent_t it
\* references is not deleted and holds the records it held when the cursor
\* was opened, and the reads of the cursor return those records in order.
C1_InvalidationSafe ==
    \A i \in Live :
        /\ ctxs[i].ent \notin destroyed
        /\ ents[ctxs[i].ent].entries = ctxs[i].snap
        /\ ctxs[i].from = "open" =>
              ctxs[i].out = ExpectedReads(ctxs[i].snap, Len(ctxs[i].out))

\* A cursor read one record, an invalidation unlinked its dirent_t, and the
\* cursor read on to the end.
C1_Witness ==
    \E i \in Live :
        /\ ctxs[i].from = "open"
        /\ ctxs[i].cut = 1
        /\ Len(ctxs[i].out) = Len(ctxs[i].snap) + 1
        /\ Len(ctxs[i].snap) >= 2
        /\ ents[ctxs[i].ent].old
        /\ db["tree"] # ctxs[i].ent

\* The dirent_t that no cursor and no call in flight references.
Unreferenced(e) ==
    /\ \A i \in Live : ctxs[i].ent # e
    /\ \A t \in Threads : th[t].dent # e
Unlinked(e) == ents[e].linked /\ \A p \in Paths : db[p] # e

\* C2: a dirent_t is deleted if and only if it has been unlinked from the db
\* and every cursor referencing it has been closed.
C2_RefcountConservation ==
    \A e \in 1..nEnts :
        e \in destroyed <=> (Unlinked(e) /\ Unreferenced(e) /\ ents[e].nref = 0)

Succeeded(t) == th[t].pc = "done" /\ ret[t].ent # NULL

\* C3: an open that starts after an open of the same path succeeded, with no
\* invalidation since, does not scan and returns the records of that first
\* open.
C3_CacheHit ==
    \A t \in Threads :
        (Succeeded(t) /\ ret[t].hadFirst /\ ~ret[t].inv) =>
            (~ret[t].scanned /\ ret[t].recs = ret[t].first)

\* C4: an open that starts after an invalidation has completed, and overlaps
\* no other, returns a dirent_t scanned after that invalidation.
C4_FreshAfterInvalidate ==
    \A t \in Threads :
        (Succeeded(t) /\ ret[t].after /\ ~ret[t].inv) => ~ret[t].old

\* The names a list call returned, in the order of its array.
Listed(r) == [k \in 1..Len(r.list) |-> r.recs[r.list[k]]]

\* C5: list(P, f, c) returns exactly the records of P that f accepts (all of
\* them without f), in the order of c when c is given, and their number.
C5_BulkView ==
    \A t \in Threads :
        (Succeeded(t) /\ ret[t].op = "list") =>
            LET r == ret[t]
                want == {n \in Range(r.recs) :
                            ~r.filt.given \/ FilterFn(r.filt, n) # 0}
                got == Listed(r)
            IN /\ Range(got) = want
               /\ Len(got) = Cardinality(want)
               /\ r.val = Cardinality(want)
               /\ r.cmp # "nil" =>
                     \A k \in 1..(Len(got) - 1) :
                         Compare(r.cmp, got[k], got[k + 1]) <= 0

\* C6: a call whose opendir or scandir finds the directory missing returns
\* its failure value (nullptr from opendir, -1 from scandir) and changes
\* neither the db, nor any dirent_t, nor any dircontext_t.
C6_MissingPath ==
    [][\A t \in Threads :
          (/\ th[t].pc \in {"opendir", "scandir"}
           /\ ~dir[th[t].path].exists
           /\ th'[t].pc # th[t].pc) =>
             /\ th'[t].pc = "done"
             /\ ret'[t].val = FailValue(th[t].op)
             /\ ret'[t].ent = NULL
             /\ UNCHANGED <<db, ents, nEnts, ctxs, lock>>]_vars

\* The list of a missing path has returned -1 while the db holds "tree".
C6_Witness ==
    \E t \in Threads :
        /\ th[t].pc = "done"
        /\ ret[t].op = "list"
        /\ ret[t].path = "nope"
        /\ ret[t].val = -1
        /\ db["tree"] # NULL
        /\ \E i \in Live : ents[ctxs[i].ent].nref > 0

\* C7: a fresh cursor over N records returns them in order in its first N
\* reads, NULL in every read after that, and its position stops at N.
C7_SequentialExhaustion ==
    \A i \in Live :
        ctxs[i].from = "open" =>
            /\ ctxs[i].out = ExpectedReads(ents[ctxs[i].ent].entries, Len(ctxs[i].out))
            /\ ctxs[i].pos = IF Len(ctxs[i].out) <= Size(i) THEN Len(ctxs[i].out)
                             ELSE Size(i)

\* A cursor over two records or more was read to the end and twice more.
C7_Witness ==
    \E i \in Live :
        /\ ctxs[i].from = "open"
        /\ Size(i) >= 2
        /\ Len(ctxs[i].out) = Size(i) + 2

\* C8: after one rewind or several, the position is 0 and the reads reproduce
\* the first read-through of the cursor, then NULL.
C8_RewindIdempotence ==
    \A i \in Live :
        ctxs[i].from \in {"rewind", "rewind2"} =>
            /\ ctxs[i].out = <<>> => ctxs[i].pos = 0
            /\ ctxs[i].hasFirst =>
                  ctxs[i].out = ExpectedReads(ctxs[i].first, Len(ctxs[i].out))

\* A cursor was read through, rewound twice in a row and read through again.
C8_Witness ==
    \E i \in Live :
        /\ ctxs[i].from = "rewind2"
        /\ ctxs[i].hasFirst
        /\ Len(ctxs[i].first) >= 2
        /\ Len(ctxs[i].out) = Len(ctxs[i].first) + 1

\* C9: seek to a position P that tell returned, then read, returns what a
\* read at position P returns: the record at P, or NULL when P is the end.
C9_SeekTellRoundTrip ==
    \A i \in Live :
        (/\ ctxs[i].from = "seek"
         /\ ctxs[i].told
         /\ Len(ctxs[i].out) = 1) =>
            ctxs[i].out[1] = ReadAt(ents[ctxs[i].ent].entries, ctxs[i].tok)

\* C10: seek sets the position to every token from 0 to the number of
\* records, and leaves it unchanged for every other token.
C10_SeekRange ==
    [][\A i \in CtxIds :
          (/\ ctxs[i].owner # NULL
           /\ ctxs'[i] # ctxs[i]
           /\ ctxs'[i].from = "seek"
           /\ ctxs'[i].out = <<>>) =>
             ctxs'[i].pos = IF 0 <= ctxs'[i].tok /\ ctxs'[i].tok <= Size(i)
                            THEN ctxs'[i].tok ELSE ctxs[i].pos]_vars

\* A step of thread t in which it does the db lookup of line 325.
Lookup(t) == th[t].pc = "find" /\ th'[t].pc # "find"
\* Thread t is between its write_lock and its unlock: the insert of line 355
\* or the clear of line 379 is under way.
Writing(t) == th[t].pc \in {"insert", "clear"}

\* C11: the db is written (insert, clear) only by the thread holding the
\* write lock, and no thread looks a path up in the db while another thread
\* is inserting into it or clearing it.
C11_LockDiscipline ==
    [][\A t \in Threads :
          /\ Writing(t) => lock = t
          /\ Lookup(t) => \A u \in Threads \ {t} : ~Writing(u)]_vars

\* C12: with no invalidation since it was scanned, the dirent_t a cursor
\* references is the one the db maps, so that any two such cursors reference
\* the same dirent_t; the loser of an insert race does not keep its own.
C12_Convergence ==
    \A i \in Live :
        ~ents[ctxs[i].ent].old =>
            /\ db["tree"] = ctxs[i].ent
            /\ \A j \in Live :
                  ~ents[ctxs[j].ent].old => ctxs[j].ent = ctxs[i].ent

\* The dircontext_t built around dirent_t e and not closed: the cursors that
\* callers hold and the ones dircache_scandir built.
Handles(e) == {i \in Live : ctxs[i].ent = e}

\* C13: the nref of every dirent_t is the number of dircontext_t built around
\* it and not yet closed, whatever the interleaving of open, list and close;
\* it is never negative.
C13_RefcountAccuracy ==
    \A e \in 1..nEnts :
        /\ ents[e].nref = Cardinality(Handles(e))
        /\ ents[e].nref >= 0

\* Two dircontext_t are built around one dirent_t, one by open and one by
\* list, and every cursor over another dirent_t has been closed.
C13_Witness ==
    \E e \in 1..nEnts :
        /\ ents[e].nref = 2
        /\ \E i, j \in Handles(e) : ctxs[i].owner = Lost /\ ctxs[j].owner \in Threads
        /\ \E f \in 1..nEnts : f # e /\ ents[f].nref = 0 /\ ents[f].linked

\* Thread t is inside opendir(3) or scandir(3) on storage.
Scanning(t) == th[t].pc \in {"opendir", "scandir"}

\* C15: no thread holds the db lock while it is inside opendir or scandir.
C15_ScanOutsideLock ==
    \A t \in Threads :
        Scanning(t) =>
            lock # t

\* One thread is inside scandir while the other holds the write lock for its
\* clear.
C15_Witness ==
    \E t, u \in Threads :
        /\ th[t].pc = "scandir"
        /\ th[u].pc = "clear"
        /\ lock = u

\* The dirent_t that a caller can still reach: through a cursor it holds,
\* through a call in flight, or through the array a list call returned and
\* the caller has not dropped yet.
InUse(e) ==
    \/ \E i \in Live : ctxs[i].owner \in Threads /\ ctxs[i].ent = e
    \/ \E t \in Threads : th[t].pc # "idle" /\ (th[t].dent = e \/ ret[t].ent = e)

\* C14: once the array of a list call has been dropped and every cursor the
\* caller opened has been closed, the nref of the dirent_t is back to 0.
C14_ListReleasesReference ==
    \A e \in 1..nEnts : ~InUse(e) => ents[e].nref = 0

\* The names of s ascend strictly: sorted by strcmp, no name twice.
Ascending(s) == \A k \in 1..(Len(s) - 1) : Compare("alpha", s[k], s[k + 1]) < 0

\* C16: the dirent_t a scan builds holds the names of the directory as they
\* were at the scan, one record each, ascending by name, and so does every
\* dirent_t the db maps.
C16_PopulationOrdering ==
    [][/\ \A t \in Threads :
            (th[t].pc = "scandir" /\ th'[t].pc = "wlock") =>
                LET recs == ents'[th'[t].dent].entries
                IN /\ Range(recs) = dir[th[t].path].names
                   /\ Len(recs) = Cardinality(dir[th[t].path].names)
                   /\ Ascending(recs)
       /\ \A p \in Paths :
            db'[p] # NULL => Ascending(ents'[db'[p]].entries)]_vars

\* The db maps a dirent_t of two records or more, scanned from a directory
\* that has changed since.
C16_Witness ==
    /\ db["tree"] # NULL
    /\ Len(ents[db["tree"]].entries) >= 2
    /\ Range(ents[db["tree"]].entries) # dir["tree"].names

\* C17: no step changes the records of a dirent_t once it is built: not
\* open, read, rewind, seek, tell, close, list with any filter and comparator,
\* or invalidate.
C17_SnapshotImmutable ==
    [][\A e \in 1..nEnts : ents'[e].entries = ents[e].entries]_vars

\* A list call returned the two records of a dirent_t in reverse order, a
\* cursor over the same dirent_t has read one of them, an invalidation has
\* unlinked it, and its records are in the order of the scan.
C17_Witness ==
    \E t \in Threads, i \in Live :
        /\ th[t].pc = "done"
        /\ ret[t].op = "list"
        /\ ret[t].cmp = "rev"
        /\ ret[t].list = <<2, 1>>
        /\ ctxs[i].owner = t
        /\ ctxs[i].ent = ret[t].ent
        /\ ctxs[i].pos = 1
        /\ ents[ret[t].ent].old
        /\ ents[ret[t].ent].entries = <<1, 2>>

\* A step of readdir, rewinddir, telldir or seekdir: no call is entered or
\* left, no dircontext_t is created or deleted, and a dircontext_t or the
\* token a caller keeps changes.
CursorStep ==
    /\ th' = th
    /\ \A i \in CtxIds : ctxs'[i].owner = ctxs[i].owner
    /\ <<ctxs, saved>>' # <<ctxs, saved>>

\* C18: readdir, rewinddir, telldir and seekdir change nothing but the one
\* dircontext_t they are called on: not the db, the lock, any dirent_t
\* (records and nref), or any other dircontext_t, over the same dirent_t or
\* not; and telldir changes no dircontext_t at all.
C18_CursorLocal ==
    [][CursorStep =>
          /\ UNCHANGED <<dir, db, lock, ents, nEnts, destroyed>>
          /\ \E i \in Live : \A j \in CtxIds \ {i} : ctxs'[j] = ctxs[j]
          /\ saved' # saved => ctxs' = ctxs]_vars

\* Two cursors over one dirent_t of two records: one has been read to the
\* end, the other has been read, rewound and sits at position 0.
C18_Witness ==
    \E i, j \in Live :
        /\ i # j
        /\ ctxs[i].ent = ctxs[j].ent
        /\ Size(i) = 2
        /\ ctxs[i].pos = 2
        /\ ctxs[j].from = "rewind"
        /\ ctxs[j].hasFirst
        /\ ctxs[j].pos = 0
        /\ saved[i] = 2

\* C20: the position of every dircontext_t stays between 0 and the number of
\* records of its dirent_t, whatever was read, rewound, told or sought, with
\* a token in range or not.
C20_PositionBound ==
    \A i \in Live : 0 <= ctxs[i].pos /\ ctxs[i].pos <= Size(i)

\* A cursor at the end of two records was sought with a token out of range
\* and read again: it is still at the end and the read returned NULL.
C20_Witness ==
    \E i \in Live :
        /\ ctxs[i].from = "seek"
        /\ ctxs[i].tok \in {-1, MaxName + 1}
        /\ Size(i) = 2
        /\ ctxs[i].pos = Size(i)
        /\ ctxs[i].out = <<NULL>>

\* Thread t is inside dircache_opendir, dircache_scandir or
\* dircache_invalidate.
InCall(t) == th[t].op # "none"

====
